---- MODULE Spec2Model ----
(***************************************************************************)
(* Verification model of the FastAPI/PostgreSQL backend: the two-factor    *)
(* authentication state machine, password reset over Redis, bearer-token   *)
(* authentication, the generic repository (soft delete, cursor pagination), *)
(* the RBAC services, the exception handlers, the request-scoped           *)
(* dependencies, file management and push notifications.                   *)
(*                                                                         *)
(* Tables are sets of rows; a request handler is one atomic action (one    *)
(* request-scoped session, committed or rolled back as a whole).  A call   *)
(* that Python cannot resolve (a method or a settings attribute that does  *)
(* not exist, a missing positional argument) raises and is answered by     *)
(* handle_unhandled_exception with status 500.  The database enforces the  *)
(* constraints the models declare (unique columns, foreign keys).          *)
(* Values drawn from a CSPRNG (TOTP secrets, backup codes) are fresh:      *)
(* the codes of one generated list are pairwise distinct.                  *)
(***************************************************************************)
EXTENDS Integers, Sequences, FiniteSets, TLC

VARIABLES
    users,             \* table users: rows keyed by id
    two_factor,        \* table two_factor_auth: set of rows
    redis,             \* Redis keys password_reset:<email> -> [otp, expires_at]
    outbox,            \* emails handed to SMTP
    roles,             \* table roles
    permissions,       \* table permissions
    role_permissions,  \* table role_permissions: rows [role_id, permission_id]
    user_roles,        \* table user_roles: rows [user_id, role_id]
    now,               \* wall clock, seconds
    resp,              \* the last request and its response
    enabled_with,      \* history: the stored secret has had a TOTP code verified
    used_backup,       \* history: backup codes accepted since the last setup_2fa
    last_issued,       \* history: OTP of the latest reset request per email
    inflight,          \* per request: its position, its session, its Redis client
    redis_global,      \* module globals redis_pool / redis_client of configs
    paging,            \* a data set and the cursor traversal over it
    files,             \* table files
    storage,           \* objects held by the storage provider, by storage_key
    push_tokens,       \* table push_tokens
    fcm_calls          \* token lists handed to FCM, in order

vars == <<users, two_factor, redis, outbox, roles, permissions, role_permissions,
          user_roles, now, resp, enabled_with, used_backup, last_issued,
          inflight, redis_global, paging, files, storage, push_tokens, fcm_calls>>

\* the state of the subsystems a service does not touch
otherSubsystems == <<inflight, redis_global, paging, files, storage, push_tokens,
                     fcm_calls>>

RequestIds == { "q1", "q2", "q3" }

\* no request in flight, module globals not yet created
NoRequests ==
    /\ inflight = [q \in RequestIds |-> [pc |-> "idle", session |-> 0, closes_seen |-> 0]]
    /\ redis_global = [redis_pool |-> FALSE, redis_client |-> FALSE,
                       close_calls |-> 0, sessions |-> 0]

NoPaging == paging = [rows |-> {}, order_by |-> "id", limit |-> 1, cursor |-> << >>,
                      seen |-> << >>, state |-> "none", last |-> << >>]

NoFiles == files = {} /\ storage = {}

NoPush == push_tokens = {} /\ fcm_calls = << >>

OtherSubsystemsIdle == NoRequests /\ NoPaging /\ NoFiles /\ NoPush

(***************************************************************************)
(* Bounds and program constants                                            *)
(***************************************************************************)
MaxTime == 300            \* the clock stops here (two-factor runs)
MaxUsersTime == 300       \* the clock stops here (user-table runs)
MaxResetTime == 900       \* the clock stops here (password-reset runs)
NumOtps == 2              \* size of the OTP space (10^6 in generate_otp)
TickSeconds == 300        \* granularity of the clock
NumTotpCodes == 3         \* size of the TOTP code space (10^6 in pyotp)
BackupCodeCount == 1      \* length of a generated backup-code list (count=10)
TotpInterval == 30        \* pyotp.TOTP default interval, seconds
OtpExpirySeconds == 600   \* ex=600 of cache_password_reset_otp

HTTP_200 == 200
HTTP_201 == 201
HTTP_202 == 202
HTTP_204 == 204
HTTP_400 == 400
HTTP_401 == 401
HTTP_403 == 403
HTTP_404 == 404
HTTP_409 == 409
HTTP_422 == 422
HTTP_500 == 500

UserIds == {"u1", "u2"}
Passwords == {"pw1", "pw2"}
Secrets == {"s1", "s2"}

\* 6-digit TOTP codes and 8-character base32 backup codes are disjoint strings
TotpCodeSpace == 0 .. (NumTotpCodes - 1)
\* two backup-code values, so that a fresh list can differ from the last
BackupCodeSpace == { 101, 102 }
SubmittedCodes == TotpCodeSpace \cup BackupCodeSpace

Range(s) == { s[i] : i \in DOMAIN s }

\* list.remove(x): drops the first occurrence of x
RECURSIVE ListRemove(_, _)
ListRemove(s, x) ==
    IF s = << >> THEN << >>
    ELSE IF Head(s) = x THEN Tail(s)
    ELSE << Head(s) >> \o ListRemove(Tail(s), x)

\* a NULL timestamp column
NullDatetime == 0 - 1

NoResp == [op |-> "none", who |-> "none", status |-> 0, detail |-> "", via |-> "none"]

(***************************************************************************)
(* Passwords (commons/security.py, AuthService)                            *)
(***************************************************************************)
\* pwd_context.hash: the bcrypt hash of a password (salt abstracted)
get_password_hash(password) == << "bcrypt", password >>

\* mutant: any password passes
verify_password_any(plain_password, hashed_password) == TRUE

\* pwd_context.verify
verify_password(plain_password, hashed_password) ==
    hashed_password = << "bcrypt", plain_password >>

(***************************************************************************)
(* Two-factor authentication (TwoFactorAuthService)                        *)
(***************************************************************************)
SecretSeed(secret_key) == IF secret_key = "s1" THEN 0 ELSE 1

\* pyotp.TOTP(secret).at(t): the code of the 30-second interval holding t
Totp(secret_key, t) == (SecretSeed(secret_key) + (t \div TotpInterval)) % NumTotpCodes

\* mutant: only the format of the code is checked
verify_totp_format_only(secret_key, totp_code, t) == totp_code \in TotpCodeSpace

\* totp.verify(code): valid_window = 0, the current interval only
verify_totp(secret_key, totp_code, t) == totp_code = Totp(secret_key, t)

\* mutant: the used backup code stays in the list
keep_used_backup_code(backup_codes, totp_code) == backup_codes

\* backup_codes.remove(totp_code)
remove_used_backup_code(backup_codes, totp_code) == ListRemove(backup_codes, totp_code)

\* [pyotp.random_base32(length=8) for _ in range(count)]
generate_backup_codes(count) ==
    { s \in [1 .. count -> BackupCodeSpace] :
        \A i, j \in 1 .. count : i # j => s[i] # s[j] }

\* json.dumps / json.loads of a list of strings
json_dumps(list) == [json |-> list]
json_loads(text) == text.json

\* select(TwoFactorAuth).where(user_id == ...) ; scalar_one_or_none
TwoFactorRows(user_id) == { r \in two_factor : r.user_id = user_id }
TwoFactorOf(user_id) == CHOOSE r \in TwoFactorRows(user_id) : TRUE

OtherUnchanged2fa ==
    UNCHANGED <<users, redis, outbox, roles, permissions, role_permissions,
                user_roles, now, last_issued, otherSubsystems>>

setup_2fa(user_id, secret_key, backup_codes) ==
    /\ Cardinality(TwoFactorRows(user_id)) <= 1
    /\ two_factor' = (two_factor \ TwoFactorRows(user_id)) \cup
          { [user_id |-> user_id, secret_key |-> secret_key,
             backup_codes |-> json_dumps(backup_codes), is_enabled |-> FALSE] }
    /\ resp' = [op |-> "setup_2fa", who |-> user_id, status |-> HTTP_200,
                detail |-> "2FA setup initiated", via |-> "none"]
    /\ used_backup' = [used_backup EXCEPT ![user_id] = {}]
    /\ enabled_with' = [enabled_with EXCEPT ![user_id] = FALSE]
    /\ OtherUnchanged2fa

enable_2fa(user_id, totp_code) ==
    LET rows == TwoFactorRows(user_id)
        answer(status, detail) ==
            resp' = [op |-> "enable_2fa", who |-> user_id, status |-> status,
                     detail |-> detail, via |-> "none"]
    IN  /\ Cardinality(rows) <= 1
        /\ IF rows = {}
           THEN /\ answer(HTTP_400, "2FA not set up")
                /\ UNCHANGED <<two_factor, enabled_with>>
           ELSE LET two_factor_row == TwoFactorOf(user_id) IN
                IF ~ verify_totp(two_factor_row.secret_key, totp_code, now)
                THEN /\ answer(HTTP_400, "Invalid TOTP code")
                     /\ UNCHANGED <<two_factor, enabled_with>>
                ELSE /\ two_factor' = (two_factor \ rows) \cup
                            { [two_factor_row EXCEPT !.is_enabled = TRUE] }
                     /\ enabled_with' = [enabled_with EXCEPT ![user_id] =
                            totp_code = Totp(two_factor_row.secret_key, now)]
                     /\ answer(HTTP_200, "2FA enabled successfully")
        /\ UNCHANGED used_backup
        /\ OtherUnchanged2fa

disable_2fa(user_id, password, totp_code) ==
    LET rows == TwoFactorRows(user_id)
        answer(status, detail, via) ==
            resp' = [op |-> "disable_2fa", who |-> user_id, status |-> status,
                     detail |-> detail, via |-> via]
        fail(status, detail) ==
            /\ answer(status, detail, "none")
            /\ UNCHANGED <<two_factor, used_backup>>
    IN  /\ Cardinality(rows) <= 1
        /\ IF rows = {} \/ ~ TwoFactorOf(user_id).is_enabled
           THEN fail(HTTP_400, "2FA not enabled")
           ELSE LET two_factor_row == TwoFactorOf(user_id)
                    backup_codes == json_loads(two_factor_row.backup_codes)
                IN
                IF ~ verify_password(password, users[user_id].password)
                THEN fail(HTTP_401, "Invalid password")
                ELSE IF verify_totp(two_factor_row.secret_key, totp_code, now)
                THEN /\ two_factor' = (two_factor \ rows) \cup
                            { [two_factor_row EXCEPT !.is_enabled = FALSE] }
                     /\ answer(HTTP_200, "2FA disabled successfully", "totp")
                     /\ UNCHANGED used_backup
                ELSE IF totp_code \notin Range(backup_codes)
                THEN fail(HTTP_400, "Invalid TOTP code")
                ELSE /\ two_factor' = (two_factor \ rows) \cup
                            { [two_factor_row EXCEPT
                                 !.backup_codes =
                                     json_dumps(remove_used_backup_code(backup_codes,
                                                                   totp_code)),
                                 !.is_enabled = FALSE] }
                     /\ answer(HTTP_200, "2FA disabled successfully", "backup")
                     /\ used_backup' = [used_backup EXCEPT ![user_id] =
                                            @ \cup {totp_code}]
        /\ UNCHANGED enabled_with
        /\ OtherUnchanged2fa

\* the attributes the TwoFactorAuth model declares; its constructor accepts
\* these keywords and raises TypeError for any other
TwoFactorAuthColumns ==
    { "id", "created_datetime", "updated_datetime", "user_id", "secret_key",
      "is_enabled", "backup_codes", "last_used_datetime" }

ModelConstructorBinds(kwargs) == kwargs \subseteq TwoFactorAuthColumns

\* TwoFactorAuthService.get_2fa_info: the object it returns, or raised
get_2fa_info(user_id) ==
    LET rows == TwoFactorRows(user_id)
        kwargs == IF rows = {}
                  THEN { "is_enabled", "created_at", "last_used_datetime",
                         "remaining_backup_codes" }
                  ELSE { "is_enabled", "created_datetime", "last_used_datetime",
                         "remaining_backup_codes" }
    IN  [raised |-> ~ ModelConstructorBinds(kwargs),
         is_enabled |-> IF rows = {} THEN FALSE ELSE TwoFactorOf(user_id).is_enabled,
         remaining_backup_codes |->
             IF rows = {} THEN 0
             ELSE Len(json_loads(TwoFactorOf(user_id).backup_codes))]

\* GET /2fa/status
get_2fa_status(user_id) ==
    LET result == get_2fa_info(user_id)
    IN  /\ Cardinality(TwoFactorRows(user_id)) <= 1
        /\ resp' = IF result.raised
                   THEN [op |-> "get_2fa_status", who |-> user_id, status |-> HTTP_500,
                         detail |-> "Internal Server Error", via |-> "none",
                         data |-> << >>]
                   ELSE [op |-> "get_2fa_status", who |-> user_id, status |-> HTTP_200,
                         detail |-> "Retrieved 2FA status", via |-> "none",
                         data |-> << [is_enabled |-> result.is_enabled,
                                      remaining_backup_codes |->
                                          result.remaining_backup_codes] >>]
        /\ UNCHANGED <<two_factor, enabled_with, used_backup>>
        /\ OtherUnchanged2fa

\* the clock advances, up to a horizon
Tick(horizon) ==
    /\ now + TickSeconds <= horizon
    /\ now' = now + TickSeconds
    /\ resp' = NoResp
    /\ UNCHANGED <<users, two_factor, redis, outbox, roles, permissions,
                   role_permissions, user_roles, enabled_with, used_backup,
                   last_issued, otherSubsystems>>

SeedUsers ==
    [u \in UserIds |->
        [email |-> IF u = "u1" THEN "a@x" ELSE "b@x",
         password |-> get_password_hash(IF u = "u1" THEN "pw1" ELSE "pw2"),
         is_active |-> TRUE,
         deleted_datetime |-> NullDatetime]]

Init2fa ==
    /\ users = SeedUsers
    /\ two_factor = {}
    /\ redis = {}
    /\ outbox = << >>
    /\ roles = {}
    /\ permissions = {}
    /\ role_permissions = {}
    /\ user_roles = {}
    /\ now = 0
    /\ resp = NoResp
    /\ enabled_with = [u \in UserIds |-> FALSE]
    /\ used_backup = [u \in UserIds |-> {}]
    /\ last_issued = << >>
    /\ OtherSubsystemsIdle

Next2fa ==
    \/ \E u \in UserIds, s \in Secrets, codes \in generate_backup_codes(BackupCodeCount) :
          setup_2fa(u, s, codes)
    \/ \E u \in UserIds, c \in SubmittedCodes : enable_2fa(u, c)
    \/ \E u \in UserIds, p \in Passwords, c \in SubmittedCodes : disable_2fa(u, p, c)
    \/ \E u \in UserIds : get_2fa_status(u)
    \/ Tick(MaxTime)

Spec2fa == Init2fa /\ [][Next2fa]_vars

(***************************************************************************)
(* Claims about two-factor authentication                                  *)
(***************************************************************************)
RowsOf(table, user_id) == { r \in table : r.user_id = user_id }

C3_DisableOutcome ==
    [][\A u \in UserIds, p \in Passwords, c \in SubmittedCodes :
          (resp'.op = "disable_2fa" /\ resp'.who = u /\ disable_2fa(u, p, c)) =>
              LET rows == RowsOf(two_factor, u)
                  enabled == rows # {} /\ \A r \in rows : r.is_enabled
                  pw_ok == users[u].password = << "bcrypt", p >>
                  code_ok == \E r \in rows :
                                \/ c = Totp(r.secret_key, now)
                                \/ c \in Range(r.backup_codes.json)
                  ok == enabled /\ pw_ok /\ code_ok
              IN  /\ (resp'.status = HTTP_200) <=> ok
                  /\ ok => \A r \in RowsOf(two_factor', u) : ~ r.is_enabled
                  /\ ~ enabled =>
                        resp'.status = HTTP_400 /\ resp'.detail = "2FA not enabled"
                  /\ (enabled /\ ~ pw_ok) =>
                        resp'.status = HTTP_401 /\ resp'.detail = "Invalid password"
                  /\ (enabled /\ pw_ok /\ ~ code_ok) =>
                        resp'.status = HTTP_400 /\ resp'.detail = "Invalid TOTP code"
                  /\ ~ ok => two_factor' = two_factor]_vars

\* C3 witness: a disable_2fa has succeeded on a TOTP code.
C3_Witness ==
    /\ resp.op = "disable_2fa" /\ resp.status = HTTP_200 /\ resp.via = "totp"
    /\ \E r \in RowsOf(two_factor, resp.who) : ~ r.is_enabled

\* C4: is_enabled is true only if, since the latest setup_2fa of the user, a
\* code was verified against the stored secret; enable_2fa answers 400 '2FA
\* not set up' without a record and 400 'Invalid TOTP code' for a code that
\* does not verify, both leaving the table unchanged.
C4_EnabledOnlyAfterVerification ==
    /\ [](\A r \in two_factor : r.is_enabled => enabled_with[r.user_id])
    /\ [][\A u \in UserIds, c \in SubmittedCodes :
            (resp'.op = "enable_2fa" /\ resp'.who = u /\ enable_2fa(u, c)) =>
                LET rows == RowsOf(two_factor, u)
                    verifies == \E r \in rows : c = Totp(r.secret_key, now)
                IN  /\ rows = {} =>
                          /\ resp'.status = HTTP_400
                          /\ resp'.detail = "2FA not set up"
                    /\ (rows # {} /\ ~ verifies) =>
                          /\ resp'.status = HTTP_400
                          /\ resp'.detail = "Invalid TOTP code"
                    /\ ~ verifies => two_factor' = two_factor
                    /\ verifies =>
                          /\ resp'.status = HTTP_200
                          /\ \A r \in RowsOf(two_factor', u) : r.is_enabled]_vars

\* C4 witness: enable_2fa has just enabled 2FA for a user.
C4_Witness ==
    /\ resp.op = "enable_2fa" /\ resp.status = HTTP_200
    /\ \E r \in RowsOf(two_factor, resp.who) : r.is_enabled

(***************************************************************************)
(* Password reset (AuthService, /auth/password-reset)                      *)
(***************************************************************************)
Emails == { "a@x", "b@x", "z@x" }     \* z@x belongs to no user
Otps == 0 .. (NumOtps - 1)

\* select(User).where(User.email == email) ; scalar_one_or_none
UsersByEmail(email) == { u \in DOMAIN users : users[u].email = email }

\* redis GET: a key is gone once its expiry has passed
RedisGet(email) == { e \in redis : e.email = email /\ now < e.expires_at }

\* redis SET key value ex=seconds: replaces the key
RedisSet(email, otp, ex) ==
    { e \in redis : e.email # email } \cup
    { [email |-> email, otp |-> otp, expires_at |-> now + ex] }

\* redis DEL key
RedisDelete(email) == { e \in redis : e.email # email }

\* AsyncEmailSender.send_email(to_emails, subject, template_name, template_data, ...)
SendEmailRequired == { "to_emails", "subject", "template_name", "template_data" }
SendEmailOptional == { "cc_emails", "bcc_emails", "reply_to" }

\* a call with these keyword arguments binds, or raises TypeError
SendEmailBinds(kwargs) ==
    /\ SendEmailRequired \subseteq kwargs
    /\ kwargs \subseteq (SendEmailRequired \cup SendEmailOptional)

\* mutant: the OTP is issued whether or not the email is known
reset_user_found_always(email) == TRUE

\* user = scalar_one_or_none(); if not user: return
reset_user_found(email) == UsersByEmail(email) # {}

\* mutant: any live OTP of the email passes
verify_password_reset_otp_any(email, otp) == RedisGet(email) # {}

\* stored_otp and stored_otp == otp
verify_password_reset_otp(email, otp) == \E e \in RedisGet(email) : e.otp = otp

OtherUnchangedReset ==
    UNCHANGED <<two_factor, roles, permissions, role_permissions, user_roles,
                now, enabled_with, used_backup, otherSubsystems>>

\* POST /auth/password-reset/request: answers 202 and runs
\* AuthService.request_password_reset as a background task
request_password_reset(email, otp) ==
    /\ resp' = [op |-> "request_password_reset", who |-> email,
                status |-> HTTP_202, detail |-> "", via |-> "none"]
    /\ IF ~ reset_user_found(email)
       THEN UNCHANGED <<redis, outbox, last_issued>>
       ELSE /\ redis' = RedisSet(email, otp, OtpExpirySeconds)
            /\ last_issued' = [last_issued EXCEPT ![email] = otp]
            /\ outbox' = IF SendEmailBinds({ "to", "subject", "body" })
                         THEN Append(outbox, [to |-> email, otp |-> otp])
                         ELSE outbox
    /\ UNCHANGED users
    /\ OtherUnchangedReset

\* POST /auth/password-reset/confirm: AuthService.reset_password
reset_password(email, otp, new_password) ==
    /\ IF ~ verify_password_reset_otp(email, otp)
       THEN /\ resp' = [op |-> "reset_password", who |-> email,
                        status |-> HTTP_400, detail |-> "Invalid or expired OTP",
                        via |-> "none"]
            /\ UNCHANGED <<redis, users>>
       ELSE /\ redis' = RedisDelete(email)
            /\ IF UsersByEmail(email) = {}
               THEN /\ resp' = [op |-> "reset_password", who |-> email,
                                status |-> HTTP_400, detail |-> "Invalid email",
                                via |-> "none"]
                    /\ UNCHANGED users
               ELSE /\ users' = [u \in DOMAIN users |->
                            IF users[u].email = email
                            THEN [users[u] EXCEPT
                                    !.password = get_password_hash(new_password)]
                            ELSE users[u]]
                    /\ resp' = [op |-> "reset_password", who |-> email,
                                status |-> HTTP_200, detail |-> "", via |-> "otp"]
    /\ UNCHANGED <<outbox, last_issued>>
    /\ OtherUnchangedReset

NoOtp == 0 - 1

InitReset ==
    /\ users = SeedUsers
    /\ two_factor = {}
    /\ redis = {}
    /\ outbox = << >>
    /\ roles = {}
    /\ permissions = {}
    /\ role_permissions = {}
    /\ user_roles = {}
    /\ now = 0
    /\ resp = NoResp
    /\ enabled_with = [u \in UserIds |-> FALSE]
    /\ used_backup = [u \in UserIds |-> {}]
    /\ last_issued = [e \in Emails |-> NoOtp]
    /\ OtherSubsystemsIdle

NextReset ==
    \/ \E e \in Emails, o \in Otps : request_password_reset(e, o)
    \/ \E e \in Emails, o \in Otps, p \in Passwords : reset_password(e, o, p)
    \/ Tick(MaxResetTime)

SpecReset == InitReset /\ [][NextReset]_vars

(***************************************************************************)
(* Claims about password reset                                             *)
(***************************************************************************)
\* C6: reset_password changes the password iff the OTP equals the one most
\* recently stored for the email and that OTP is neither expired nor
\* consumed; a success deletes the OTP, a failure answers 400 'Invalid or
\* expired OTP' and leaves the password and the stored OTP unchanged.
C6_ResetNeedsLiveLatestOtp ==
    [][\A e \in Emails, o \in Otps, p \in Passwords :
          (resp'.op = "reset_password" /\ resp'.who = e /\ reset_password(e, o, p)) =>
              LET live == { k \in redis : k.email = e /\ now < k.expires_at }
                  ok == \E k \in live : k.otp = o
              IN  /\ (resp'.status = HTTP_200) <=> ok
                  /\ ok =>
                        /\ o = last_issued[e]
                        /\ \E u \in UserIds :
                              /\ users[u].email = e
                              /\ users'[u].password = << "bcrypt", p >>
                        /\ \A k \in redis' : k.email # e
                  /\ ~ ok =>
                        /\ resp'.status = HTTP_400
                        /\ resp'.detail = "Invalid or expired OTP"
                        /\ users' = users
                        /\ redis' = redis]_vars

\* C6 witness: a reset has succeeded and changed a stored password.
C6_Witness ==
    /\ resp.op = "reset_password" /\ resp.status = HTTP_200
    /\ \E u \in UserIds : users[u].password # SeedUsers[u].password

\* C7: a reset request is answered 202 with no body whatever the email, and
\* for an email of no user it stores no OTP and sends no email.
C7_ResetRequestRevealsNothing ==
    [][\A e \in Emails, o \in Otps :
          (resp'.op = "request_password_reset" /\ resp'.who = e /\
           request_password_reset(e, o)) =>
              /\ resp'.status = HTTP_202
              /\ resp'.detail = ""
              /\ (\A u \in UserIds : users[u].email # e) =>
                    /\ redis' = redis
                    /\ outbox' = outbox
                    /\ last_issued' = last_issued]_vars

\* C7 witness: requests for an unknown email have been answered while an OTP
\* issued for a known email is stored.
C7_Witness ==
    /\ resp.op = "request_password_reset" /\ resp.status = HTTP_202
    /\ \A u \in UserIds : users[u].email # resp.who
    /\ redis # {}

(***************************************************************************)
(* Roles and permissions (authorization services and repositories)         *)
(***************************************************************************)
RoleIds == { "r1", "r2" }
RoleIdInputs == RoleIds \cup { "r0" }              \* r0 is the id of no role
RoleNames == { "admin", "staff", "guest" }
PermissionIds == { "p1", "p2" }
PermissionIdInputs == PermissionIds \cup { "p0" }  \* p0 is the id of no permission
PermissionNames == { "List users", "Delete users" }
PermissionCodes == { "user:list", "user:delete", "file:read" }

\* an optional request field: << >> when the client leaves it out
Unset == << >>
Optional(values) == { Unset } \cup { << v >> : v \in values }
IsSet(field) == field # Unset
ValueOf(field) == field[1]

\* methods a RoleRepository instance resolves: its own and BaseRepository's
BaseRepositoryMethods ==
    { "create", "get", "get_by_attributes", "get_or_404", "list", "update",
      "delete", "list_with_cursor", "count" }
RoleRepositoryMethods ==
    BaseRepositoryMethods \cup
    { "get_with_permissions", "get_by_name", "get_default_role", "get_user_roles" }

\* BaseRepository.create(self, schema, **kwargs): a call binds only if it
\* supplies schema
CreateBinds(kwargs) == "schema" \in kwargs

\* BaseRepository.delete(self, id): get_or_404 compares the id column with
\* the argument, which must be an id and not a model instance
DeleteBinds(argument) == argument = "id"

\* RoleRepository.get_with_permissions
get_with_permissions(id) == { r \in roles : r.id = id }

\* RoleRepository.get_by_name: self.get_by_attribute(name=name)
get_by_name(name) ==
    IF "get_by_attribute" \in RoleRepositoryMethods
    THEN [raised |-> FALSE, rows |-> { r \in roles : r.name = name }]
    ELSE [raised |-> TRUE, rows |-> {}]

\* RoleRepository.get_default_role: self.get_by_attribute(is_default=True)
get_default_role ==
    IF "get_by_attribute" \in RoleRepositoryMethods
    THEN [raised |-> FALSE, rows |-> { r \in roles : r.is_default }]
    ELSE [raised |-> TRUE, rows |-> {}]

\* BaseRepository.get on Permission (no SoftDeleteMixin)
PermissionGet(id) == { q \in permissions : q.id = id }

\* PermissionRepository.get_by_code: self.get_by_attributes(code=code)
get_by_code(code) == { q \in permissions : q.code = code }

\* PermissionRepository.get_multiple_by_ids
get_multiple_by_ids(ids) == { q \in permissions : q.id \in ids }

\* select(Permission).join(RolePermission).join(UserRole).where(user_id)
get_user_permissions_query(user_id) ==
    { q \in permissions :
        \E rp \in role_permissions, ur \in user_roles :
            /\ rp.permission_id = q.id
            /\ ur.role_id = rp.role_id
            /\ ur.user_id = user_id }

\* mutant: one required code is enough
has_any_required(required_permissions, user_permission_codes) ==
    required_permissions \cap user_permission_codes # {}

\* self.required_permissions.issubset(user_permission_codes)
has_required(required_permissions, user_permission_codes) ==
    required_permissions \subseteq user_permission_codes

RbacResp(op, who, status, detail) ==
    [op |-> op, who |-> who, status |-> status, detail |-> detail, via |-> "none"]

OtherUnchangedRbac ==
    UNCHANGED <<users, two_factor, redis, outbox, now, enabled_with,
                used_backup, last_issued, otherSubsystems>>

\* repository.update(instance=current_default, fields={"is_default": False})
UnsetDefault(table, keep_id) ==
    { IF r.is_default /\ r.id # keep_id THEN [r EXCEPT !.is_default = FALSE] ELSE r :
        r \in table }

FreshRoleId == CHOOSE i \in RoleIdInputs : \A r \in roles : r.id # i

\* fields of an update that the request sets (model_dump(exclude_unset=True))
ApplyRoleFields(r, name, is_default) ==
    [r EXCEPT !.name = IF IsSet(name) THEN ValueOf(name) ELSE @,
              !.is_default = IF IsSet(is_default) THEN ValueOf(is_default) ELSE @]

ApplyPermissionFields(q, name, code) ==
    [q EXCEPT !.name = IF IsSet(name) THEN ValueOf(name) ELSE @,
              !.code = IF IsSet(code) THEN ValueOf(code) ELSE @]

\* len(permissions) != len(data.permission_ids)
SomeIdsInvalid(permission_ids) ==
    Cardinality(get_multiple_by_ids(permission_ids)) # Cardinality(permission_ids)

\* RoleService.create_role
create_role(name, is_default, permission_ids) ==
    LET existing == get_by_name(name)
        cleared == IF is_default THEN UnsetDefault(roles, "none") ELSE roles
    IN  /\ IF existing.raised
           THEN /\ resp' = RbacResp("create_role", "none", HTTP_500, "Internal Server Error")
                /\ UNCHANGED roles
           ELSE IF existing.rows # {}
           THEN /\ resp' = RbacResp("create_role", "none", HTTP_409,
                                    "Role with name already exists")
                /\ UNCHANGED roles
           ELSE IF is_default /\ get_default_role.raised
           THEN /\ resp' = RbacResp("create_role", "none", HTTP_500, "Internal Server Error")
                /\ UNCHANGED roles
           ELSE IF /\ IsSet(permission_ids)
                   /\ ValueOf(permission_ids) # {}
                   /\ SomeIdsInvalid(ValueOf(permission_ids))
           THEN /\ resp' = RbacResp("create_role", "none", HTTP_400,
                                    "Some permission IDs are invalid")
                /\ roles' = cleared
           ELSE IF ~ CreateBinds({ "name", "description", "is_default", "is_system" })
           THEN /\ resp' = RbacResp("create_role", "none", HTTP_500, "Internal Server Error")
                /\ roles' = cleared
           ELSE /\ resp' = RbacResp("create_role", "none", HTTP_201, "")
                /\ roles' = cleared \cup
                       { [id |-> FreshRoleId, name |-> name,
                          is_default |-> is_default, is_system |-> FALSE] }
        /\ UNCHANGED <<permissions, role_permissions, user_roles>>
        /\ OtherUnchangedRbac

\* RoleService.update_role
update_role(role_id, name, is_default, permission_ids) ==
    LET found == get_with_permissions(role_id)
        role == CHOOSE r \in found : TRUE
        renaming == IsSet(name) /\ ValueOf(name) # role.name
        defaulting == IsSet(is_default) /\ ValueOf(is_default) /\ ~ role.is_default
        cleared == IF defaulting THEN UnsetDefault(roles, role.id) ELSE roles
    IN  /\ IF found = {}
           THEN /\ resp' = RbacResp("update_role", role_id, HTTP_404, "Role not found")
                /\ UNCHANGED roles
           ELSE IF renaming /\ get_by_name(ValueOf(name)).raised
           THEN /\ resp' = RbacResp("update_role", role_id, HTTP_500, "Internal Server Error")
                /\ UNCHANGED roles
           ELSE IF renaming /\ get_by_name(ValueOf(name)).rows # {}
           THEN /\ resp' = RbacResp("update_role", role_id, HTTP_409,
                                    "Role with name already exists")
                /\ UNCHANGED roles
           ELSE IF defaulting /\ get_default_role.raised
           THEN /\ resp' = RbacResp("update_role", role_id, HTTP_500, "Internal Server Error")
                /\ UNCHANGED roles
           ELSE IF IsSet(permission_ids) /\ SomeIdsInvalid(ValueOf(permission_ids))
           THEN /\ resp' = RbacResp("update_role", role_id, HTTP_400,
                                    "Some permission IDs are invalid")
                /\ roles' = cleared
           ELSE /\ resp' = RbacResp("update_role", role_id, HTTP_200, "")
                /\ roles' = { IF r.id = role_id
                              THEN ApplyRoleFields(r, name, is_default) ELSE r :
                              r \in cleared }
        /\ UNCHANGED <<permissions, role_permissions, user_roles>>
        /\ OtherUnchangedRbac

\* RoleService.delete_role
delete_role(role_id) ==
    LET found == { r \in roles : r.id = role_id }
        role == CHOOSE r \in found : TRUE
    IN  /\ IF found = {}
           THEN /\ resp' = RbacResp("delete_role", role_id, HTTP_404, "Role not found")
                /\ UNCHANGED <<roles, role_permissions, user_roles>>
           ELSE IF role.is_system
           THEN /\ resp' = RbacResp("delete_role", role_id, HTTP_403,
                                    "Cannot delete a system role")
                /\ UNCHANGED <<roles, role_permissions, user_roles>>
           ELSE IF ~ DeleteBinds("instance")
           THEN /\ resp' = RbacResp("delete_role", role_id, HTTP_500, "Internal Server Error")
                /\ UNCHANGED <<roles, role_permissions, user_roles>>
           ELSE /\ resp' = RbacResp("delete_role", role_id, HTTP_204, "")
                /\ roles' = roles \ found
                /\ role_permissions' = { rp \in role_permissions : rp.role_id # role_id }
                /\ user_roles' = { ur \in user_roles : ur.role_id # role_id }
        /\ UNCHANGED permissions
        /\ OtherUnchangedRbac

\* PermissionService.create_permission
create_permission(name, code) ==
    /\ IF get_by_code(code) # {}
       THEN /\ resp' = RbacResp("create_permission", "none", HTTP_409,
                                "Permission with code already exists")
            /\ UNCHANGED permissions
       ELSE IF ~ CreateBinds({ "name", "code", "description" })
       THEN /\ resp' = RbacResp("create_permission", "none", HTTP_500, "Internal Server Error")
            /\ UNCHANGED permissions
       ELSE IF \E q \in permissions : q.name = name
       THEN /\ resp' = RbacResp("create_permission", "none", HTTP_409, "Data integrity error")
            /\ UNCHANGED permissions
       ELSE /\ resp' = RbacResp("create_permission", "none", HTTP_201, "")
            /\ permissions' = permissions \cup
                   { [id |-> CHOOSE i \in PermissionIdInputs :
                                 \A q \in permissions : q.id # i,
                      name |-> name, code |-> code] }
    /\ UNCHANGED <<roles, role_permissions, user_roles>>
    /\ OtherUnchangedRbac

\* PermissionService.update_permission
update_permission(permission_id, name, code) ==
    LET found == PermissionGet(permission_id)
        permission == CHOOSE q \in found : TRUE
        updated == ApplyPermissionFields(permission, name, code)
    IN  /\ IF found = {}
           THEN /\ resp' = RbacResp("update_permission", permission_id, HTTP_404,
                                    "Permission not found")
                /\ UNCHANGED permissions
           ELSE IF /\ IsSet(code)
                   /\ ValueOf(code) # permission.code
                   /\ get_by_code(ValueOf(code)) # {}
           THEN /\ resp' = RbacResp("update_permission", permission_id, HTTP_409,
                                    "Permission with code already exists")
                /\ UNCHANGED permissions
           ELSE IF \E q \in permissions \ found :
                       q.name = updated.name \/ q.code = updated.code
           THEN /\ resp' = RbacResp("update_permission", permission_id, HTTP_409,
                                    "Data integrity error")
                /\ UNCHANGED permissions
           ELSE /\ resp' = RbacResp("update_permission", permission_id, HTTP_200, "")
                /\ permissions' = (permissions \ found) \cup { updated }
    /\ UNCHANGED <<roles, role_permissions, user_roles>>
    /\ OtherUnchangedRbac

\* PermissionService.delete_permission
delete_permission(permission_id) ==
    LET found == PermissionGet(permission_id)
    IN  /\ IF found = {}
           THEN /\ resp' = RbacResp("delete_permission", permission_id, HTTP_404,
                                    "Permission not found")
                /\ UNCHANGED <<permissions, role_permissions>>
           ELSE IF ~ DeleteBinds("instance")
           THEN /\ resp' = RbacResp("delete_permission", permission_id, HTTP_500,
                                    "Internal Server Error")
                /\ UNCHANGED <<permissions, role_permissions>>
           ELSE /\ resp' = RbacResp("delete_permission", permission_id, HTTP_204, "")
                /\ permissions' = permissions \ found
                /\ role_permissions' =
                       { rp \in role_permissions : rp.permission_id # permission_id }
    /\ UNCHANGED <<roles, user_roles>>
    /\ OtherUnchangedRbac

\* PermissionChecker.__call__ for the current user
PermissionChecker(required_permissions, user_id) ==
    LET user_permission_codes == { q.code : q \in get_user_permissions_query(user_id) }
    IN  /\ resp' = IF has_required(required_permissions, user_permission_codes)
                   THEN RbacResp("PermissionChecker", user_id, HTTP_200, "")
                   ELSE RbacResp("PermissionChecker", user_id, HTTP_403,
                                 "Not enough permissions")
        /\ UNCHANGED <<roles, permissions, role_permissions, user_roles>>
        /\ OtherUnchangedRbac

\* the attributes the Role model declares
RoleAttributes ==
    { "id", "created_datetime", "updated_datetime", "name", "description",
      "is_default", "is_system", "permissions", "role_permissions", "user_roles" }

\* select(Role).join(UserRole, UserRole.role_id == Role.id).where(user_id)
get_user_roles_query(user_id) ==
    { r \in roles : \E ur \in user_roles : ur.role_id = r.id /\ ur.user_id = user_id }

RequiredRoleSets == { { "admin" }, { "staff" }, { "staff", "guest" } }

\* RoleChecker.__call__ for the current user: the comprehension reads r.code
\* of every role the query returns
RoleChecker(required_roles, user_id) ==
    LET held == get_user_roles_query(user_id)
    IN  /\ resp' = IF held # {} /\ "code" \notin RoleAttributes
                   THEN RbacResp("RoleChecker", user_id, HTTP_500, "Internal Server Error")
                   ELSE LET user_role_codes == { r.code : r \in held }
                        IN  IF required_roles \cap user_role_codes = {}
                            THEN RbacResp("RoleChecker", user_id, HTTP_403,
                                          "Required role not found")
                            ELSE RbacResp("RoleChecker", user_id, HTTP_200, "")
        /\ UNCHANGED <<roles, permissions, role_permissions, user_roles>>
        /\ OtherUnchangedRbac

\* tables as the migrations' constraints allow them: names and codes unique,
\* link rows pointing at existing rows, at most one default role
SeedRoles ==
    { { [id |-> "r1", name |-> "admin", is_default |-> d[1], is_system |-> TRUE],
        [id |-> "r2", name |-> "staff", is_default |-> d[2], is_system |-> FALSE] } :
      d \in { <<FALSE, FALSE>>, <<TRUE, FALSE>>, <<FALSE, TRUE>> } }

SeedPermissions ==
    { [id |-> "p1", name |-> "List users", code |-> "user:list"],
      [id |-> "p2", name |-> "Delete users", code |-> "user:delete"] }

SeedRolePermissions ==
    SUBSET { [role_id |-> r, permission_id |-> q] : r \in RoleIds, q \in PermissionIds }

SeedUserRoles ==
    { assigned \cup { [user_id |-> "u2", role_id |-> "r2"] } :
      assigned \in SUBSET { [user_id |-> "u1", role_id |-> r] : r \in RoleIds } }

InitRbac ==
    /\ users = SeedUsers
    /\ two_factor = {}
    /\ redis = {}
    /\ outbox = << >>
    /\ roles \in SeedRoles
    /\ permissions = SeedPermissions
    /\ role_permissions \in SeedRolePermissions
    /\ user_roles \in SeedUserRoles
    /\ now = 0
    /\ resp = NoResp
    /\ enabled_with = [u \in UserIds |-> FALSE]
    /\ used_backup = [u \in UserIds |-> {}]
    /\ last_issued = [e \in Emails |-> NoOtp]
    /\ OtherSubsystemsIdle

PermissionIdSets == Optional({ { "p1" }, { "p1", "p0" } })

NextRbac ==
    \/ \E n \in RoleNames, d \in BOOLEAN, ids \in PermissionIdSets :
          create_role(n, d, ids)
    \/ \E r \in RoleIdInputs, n \in Optional(RoleNames), d \in Optional(BOOLEAN),
          ids \in PermissionIdSets : update_role(r, n, d, ids)
    \/ \E r \in RoleIdInputs : delete_role(r)
    \/ \E n \in PermissionNames, c \in PermissionCodes : create_permission(n, c)
    \/ \E q \in PermissionIdInputs, n \in Optional(PermissionNames),
          c \in Optional(PermissionCodes) : update_permission(q, n, c)
    \/ \E q \in PermissionIdInputs : delete_permission(q)
    \/ \E required \in SUBSET PermissionCodes, u \in UserIds :
          PermissionChecker(required, u)
    \/ \E required \in RequiredRoleSets, u \in UserIds : RoleChecker(required, u)

SpecRbac == InitRbac /\ [][NextRbac]_vars

(***************************************************************************)
(* Claims about roles and permissions                                      *)
(***************************************************************************)
\* codes of the permissions attached to the roles assigned to a user
CodesThroughRoles(user_id) ==
    { q.code : q \in
        { q \in permissions :
            \E r \in roles :
                /\ [user_id |-> user_id, role_id |-> r.id] \in user_roles
                /\ [role_id |-> r.id, permission_id |-> q.id] \in role_permissions } }

RoleNamesDistinct == \A a, b \in roles : a.name = b.name => a = b
PermissionCodesDistinct == \A a, b \in permissions : a.code = b.code => a = b
RbacTablesUnchanged ==
    UNCHANGED <<roles, permissions, role_permissions, user_roles>>

\* C9: role names and permission codes stay pairwise distinct, and a
\* create or update that asks for a name (code) held by another role
\* (permission) fails with 409 and changes nothing.
C9_DuplicatesAnswer409 ==
    /\ [](RoleNamesDistinct /\ PermissionCodesDistinct)
    /\ [][/\ \A n \in RoleNames, d \in BOOLEAN, ids \in PermissionIdSets :
               (create_role(n, d, ids) /\ \E r \in roles : r.name = n) =>
                   (resp'.status = HTTP_409 /\ RbacTablesUnchanged)
          /\ \A i \in RoleIds, n \in RoleNames, d \in Optional(BOOLEAN),
                ids \in PermissionIdSets :
               (/\ update_role(i, << n >>, d, ids)
                /\ \E r \in roles : r.id = i
                /\ \E r \in roles : r.id # i /\ r.name = n) =>
                   (resp'.status = HTTP_409 /\ RbacTablesUnchanged)
          /\ \A n \in PermissionNames, c \in PermissionCodes :
               (create_permission(n, c) /\ \E q \in permissions : q.code = c) =>
                   (resp'.status = HTTP_409 /\ RbacTablesUnchanged)
          /\ \A i \in PermissionIds, n \in Optional(PermissionNames),
                c \in PermissionCodes :
               (/\ update_permission(i, n, << c >>)
                /\ \E q \in permissions : q.id = i
                /\ \E q \in permissions : q.id # i /\ q.code = c) =>
                   (resp'.status = HTTP_409 /\ RbacTablesUnchanged)]_vars

AtMostOneDefault == Cardinality({ r \in roles : r.is_default }) <= 1

\* C10: at most one role is the default, and a create_role or update_role
\* that asks for is_default True leaves no other role as the default.
C10_NewDefaultReplacesOld ==
    /\ []AtMostOneDefault
    /\ [][/\ \A n \in RoleNames, ids \in PermissionIdSets :
               create_role(n, TRUE, ids) =>
                   \A r \in roles' : r.id \in { o.id : o \in roles } => ~ r.is_default
          /\ \A i \in RoleIds, n \in Optional(RoleNames), ids \in PermissionIdSets :
               (update_role(i, n, << TRUE >>, ids) /\ \E r \in roles : r.id = i) =>
                   \A r \in roles' : r.id # i => ~ r.is_default]_vars

(***************************************************************************)
(* Users: BaseRepository on a SoftDeleteMixin model, and get_current_user  *)
(***************************************************************************)
UserIdInputs == UserIds \cup { "u0" }      \* u0 is the id of no user

\* query.where(self.model.deleted_datetime.is_(None))
Visible == { u \in DOMAIN users : users[u].deleted_datetime = NullDatetime }

\* BaseRepository.get
get(id) == { u \in Visible : u = id }

\* BaseRepository.get_by_attributes(email=...)
get_by_attributes(email) == { u \in Visible : users[u].email = email }

\* BaseRepository.list with no filters and the table within the limit
list == Visible

\* BaseRepository.list_with_cursor: rows the query can return
list_with_cursor_rows == Visible

\* BaseRepository.count
count == Cardinality(Visible)

\* UserRepository.get_by_id_with_relations
get_by_id_with_relations(id) == { u \in Visible : u = id }

\* setattr(obj, name, value) followed by commit: only mapped columns are
\* written to the row
SetAttribute(row, name, value) ==
    IF name \in DOMAIN row THEN [row EXCEPT ![name] = value] ELSE row

\* BaseRepository.__init__(self, model, db_session): a call binds only if it
\* passes both
RepositoryInitBinds(arguments) == Len(arguments) = 2

\* fields of Settings
SettingsFields ==
    { "project_name", "version", "description", "debug", "jwt_secret_key",
      "jwt_algorithm", "postgres_user", "postgres_password", "postgres_host",
      "postgres_port", "postgres_db", "redis_host", "redis_port",
      "redis_password", "smtp_host", "smtp_port", "smtp_username",
      "smtp_password", "smtp_from_email", "smtp_from_name", "smtp_tls",
      "smtp_ssl" }

\* bearer tokens: whether jwt.decode accepts the token, and its sub claim
Tokens ==
    { [decodes |-> FALSE, sub |-> Unset] } \cup
    { [decodes |-> TRUE, sub |-> c] : c \in Optional(UserIdInputs) }

UsersResp(op, who, status, detail) ==
    [op |-> op, who |-> who, status |-> status, detail |-> detail, via |-> "none"]

OtherUnchangedUsers ==
    UNCHANGED <<two_factor, redis, outbox, roles, permissions, role_permissions,
                user_roles, now, enabled_with, used_backup, last_issued, otherSubsystems>>

\* BaseRepository.delete on User
delete(id) ==
    /\ IF get(id) = {}
       THEN /\ resp' = UsersResp("delete", id, HTTP_404, "User not found")
            /\ UNCHANGED users
       ELSE /\ users' = [users EXCEPT ![id] = SetAttribute(@, "deleted_time", now)]
            /\ resp' = UsersResp("delete", id, HTTP_200, "")
    /\ OtherUnchangedUsers

\* DELETE /users/{user_id}
delete_user(user_id) ==
    /\ IF ~ RepositoryInitBinds(<< "session" >>)
       THEN /\ resp' = UsersResp("delete_user", user_id, HTTP_500, "Internal Server Error")
            /\ UNCHANGED users
       ELSE IF get_by_id_with_relations(user_id) = {}
       THEN /\ \E st \in { HTTP_404, HTTP_500 } :
                   resp' = UsersResp("delete_user", user_id, st, "User not found")
            /\ UNCHANGED users
       ELSE IF ~ DeleteBinds("instance")
       THEN /\ resp' = UsersResp("delete_user", user_id, HTTP_500, "Internal Server Error")
            /\ UNCHANGED users
       ELSE /\ users' = [users EXCEPT ![user_id] = SetAttribute(@, "deleted_time", now)]
            /\ resp' = UsersResp("delete_user", user_id, HTTP_204, "")
    /\ OtherUnchangedUsers

\* get_current_user
get_current_user(token) ==
    LET who == IF IsSet(token.sub) THEN ValueOf(token.sub) ELSE "none"
    IN  /\ IF ~ ({ "SECRET_KEY", "ALGORITHM" } \subseteq SettingsFields)
           THEN resp' = UsersResp("get_current_user", who, HTTP_500, "Internal Server Error")
           ELSE IF ~ token.decodes \/ ~ IsSet(token.sub)
           THEN resp' = UsersResp("get_current_user", who, HTTP_401,
                                  "Could not validate credentials")
           ELSE IF ~ RepositoryInitBinds(<< "session" >>)
           THEN resp' = UsersResp("get_current_user", who, HTTP_500, "Internal Server Error")
           ELSE IF get_by_id_with_relations(who) = {}
           THEN \E st \in { HTTP_404, HTTP_500 } :
                   resp' = UsersResp("get_current_user", who, st, "User not found")
           ELSE IF ~ users[who].is_active
           THEN resp' = UsersResp("get_current_user", who, HTTP_403, "Inactive user")
           ELSE resp' = UsersResp("get_current_user", who, HTTP_200, "")
        /\ UNCHANGED users
        /\ OtherUnchangedUsers

\* user rows as the table can hold them: active or not, soft-deleted or not
SeedUserTables ==
    { [u \in UserIds |->
          [SeedUsers[u] EXCEPT !.is_active = active[u],
                               !.deleted_datetime =
                                   IF deleted[u] THEN 0 ELSE NullDatetime]] :
      active \in [UserIds -> BOOLEAN], deleted \in [UserIds -> BOOLEAN] }

InitUsers ==
    /\ users \in SeedUserTables
    /\ two_factor = {}
    /\ redis = {}
    /\ outbox = << >>
    /\ roles = {}
    /\ permissions = {}
    /\ role_permissions = {}
    /\ user_roles = {}
    /\ now = 0
    /\ resp = NoResp
    /\ enabled_with = [u \in UserIds |-> FALSE]
    /\ used_backup = [u \in UserIds |-> {}]
    /\ last_issued = [e \in Emails |-> NoOtp]
    /\ OtherSubsystemsIdle

NextUsers ==
    \/ \E id \in UserIdInputs : delete(id)
    \/ \E id \in UserIdInputs : delete_user(id)
    \/ \E token \in Tokens : get_current_user(token)
    \/ Tick(MaxUsersTime)

SpecUsers == InitUsers /\ [][NextUsers]_vars

(***************************************************************************)
(* Claims about users                                                      *)
(***************************************************************************)
\* C5: get_current_user returns the user named by sub only when the token
\* decodes, carries a sub, and that user exists, is not soft-deleted and is
\* active; it answers 401 'Could not validate credentials' for an invalid
\* token, a missing sub or a user not found, and 403 'Inactive user' for an
\* inactive user.
C5_CurrentUserOutcome ==
    [][\A token \in Tokens :
          get_current_user(token) =>
              LET named == IF token.decodes /\ IsSet(token.sub)
                           THEN { u \in DOMAIN users :
                                    /\ u = ValueOf(token.sub)
                                    /\ users[u].deleted_datetime = NullDatetime }
                           ELSE {}
                  active == \E u \in named : users[u].is_active
              IN  /\ (resp'.status = HTTP_200) <=> active
                  /\ named = {} =>
                        /\ resp'.status = HTTP_401
                        /\ resp'.detail = "Could not validate credentials"
                  /\ (named # {} /\ ~ active) =>
                        /\ resp'.status = HTTP_403
                        /\ resp'.detail = "Inactive user"]_vars

Hidden(u) ==
    /\ get(u) = {}
    /\ get_by_attributes(users[u].email) = {}
    /\ u \notin list
    /\ u \notin list_with_cursor_rows
    /\ count = Cardinality({ v \in DOMAIN users : v # u /\ v \in Visible })

\* C8: a successful delete of a user keeps the row with deleted_datetime
\* set, a set deleted_datetime is never cleared, and get, get_by_attributes,
\* list, list_with_cursor and count neither return nor count such a row.
C8_SoftDeleteHides ==
    /\ [](\A u \in DOMAIN users :
             users[u].deleted_datetime # NullDatetime => Hidden(u))
    /\ [][\A u \in DOMAIN users :
             users[u].deleted_datetime # NullDatetime =>
                 (u \in DOMAIN users' /\ users'[u].deleted_datetime # NullDatetime)]_vars
    /\ [][\A id \in UserIdInputs :
             (delete(id) /\ resp'.status = HTTP_200) =>
                 (id \in DOMAIN users' /\ users'[id].deleted_datetime # NullDatetime)]_vars

\* C11: delete_role removes the role iff it exists and is not a system role;
\* it answers 404 'Role not found' for no role and 403 'Cannot delete a
\* system role' for a system role, leaving the role and its links unchanged.
C11_DeleteRoleOutcome ==
    [][\A i \in RoleIdInputs :
          (resp'.op = "delete_role" /\ resp'.who = i /\ delete_role(i)) =>
              LET found == { r \in roles : r.id = i }
                  deletable == \E r \in found : ~ r.is_system
              IN  /\ (\A r \in roles' : r.id # i) <=> (found = {} \/ deletable)
                  /\ found = {} =>
                        /\ resp'.status = HTTP_404
                        /\ resp'.detail = "Role not found"
                  /\ (found # {} /\ ~ deletable) =>
                        /\ resp'.status = HTTP_403
                        /\ resp'.detail = "Cannot delete a system role"
                  /\ ~ deletable => RbacTablesUnchanged]_vars

(***************************************************************************)
(* Exception handlers (commons/errors/handlers.py, main.py)                *)
(***************************************************************************)
RequestPaths == { "/api/v1/roles", "/api/v1/users", "/api/v1/auth/login" }
ErrorMessages == { "Role not found", "Not enough permissions", "boom" }
RaisedStatusCodes == { HTTP_400, HTTP_401, HTTP_403, HTTP_404, HTTP_409, HTTP_500 }

\* exceptions a request can raise, by the class the handlers are keyed on
RaisedExceptions ==
    { [kind |-> k, status_code |-> c, message |-> m] :
        k \in { "AppException", "HTTPException" }, c \in RaisedStatusCodes,
        m \in ErrorMessages } \cup
    { [kind |-> k, status_code |-> 0, message |-> m] :
        k \in { "ValidationError", "RequestValidationError", "IntegrityError",
                "Exception" },
        m \in ErrorMessages }

\* create_error_response(request, message, error_code=None, data=None)
CreateErrorResponseParams == { "request", "message", "error_code", "data" }

create_error_response(kwargs, path, message, error_code, data) ==
    IF kwargs \subseteq CreateErrorResponseParams
    THEN [raised |-> FALSE,
          body |-> [status |-> FALSE, path |-> path, timestamp |-> now,
                    error_code |-> error_code, message |-> message, data |-> data]]
    ELSE [raised |-> TRUE, body |-> [text |-> "TypeError"]]

\* JSONResponse(status_code=..., content=create_error_response(...))
JSONResponse(status_code, content) ==
    IF content.raised
    THEN [raised |-> TRUE, status |-> 0, body |-> content.body]
    ELSE [raised |-> FALSE, status |-> status_code, body |-> content.body]

handle_app_exception(path, exc) ==
    JSONResponse(exc.status_code,
        create_error_response({ "request", "message", "status_code", "error_code", "data" },
                              path, exc.message, "app_error", "none"))

handle_validation_error(path, exc) ==
    JSONResponse(HTTP_422,
        create_error_response({ "request", "message", "error_code", "data" },
                              path, "Invalid submitted data", "validation_error", "errors"))

handle_request_validation_error(path, exc) ==
    JSONResponse(HTTP_422,
        create_error_response({ "request", "message", "error_code", "data" },
                              path, "Invalid submitted data", "validation_error", "errors"))

handle_integrity_error(path, exc) ==
    JSONResponse(HTTP_409,
        create_error_response({ "request", "message", "error_code" },
                              path, "Data integrity error", "integrity_error", "none"))

handle_http_exception(path, exc) ==
    JSONResponse(exc.status_code,
        create_error_response({ "request", "message", "error_code" },
                              path, exc.message, "none", "none"))

handle_unhandled_exception(path, exc) ==
    JSONResponse(HTTP_500,
        create_error_response({ "request", "message", "status_code", "error_code" },
                              path, "Internal server error", "internal_server_error",
                              "none"))

\* EXCEPTION_HANDLERS_MAPPING
EXCEPTION_HANDLERS_MAPPING(path, exc) ==
    CASE exc.kind = "AppException" -> handle_app_exception(path, exc)
      [] exc.kind = "ValidationError" -> handle_validation_error(path, exc)
      [] exc.kind = "RequestValidationError" -> handle_request_validation_error(path, exc)
      [] exc.kind = "IntegrityError" -> handle_integrity_error(path, exc)
      [] exc.kind = "HTTPException" -> handle_http_exception(path, exc)
      [] OTHER -> handle_unhandled_exception(path, exc)

\* the answer when the handler registered for Exception raises as well: the
\* server's own plain-text 500
ServerErrorResponse ==
    [raised |-> FALSE, status |-> HTTP_500, body |-> [text |-> "Internal Server Error"]]

\* FastAPI(exception_handlers=EXCEPTION_HANDLERS_MAPPING): an exception goes
\* to its handler; an exception raised by a handler goes to the handler
\* registered for Exception; if that raises, the server answers
dispatch_exception(path, exc) ==
    LET first == EXCEPTION_HANDLERS_MAPPING(path, exc)
        second == handle_unhandled_exception(path, [exc EXCEPT !.kind = "Exception"])
    IN  IF ~ first.raised THEN first
        ELSE IF ~ second.raised THEN second
        ELSE ServerErrorResponse

\* a request at path raises exc while it is handled
raise_in_request(path, exc) ==
    LET response == dispatch_exception(path, exc)
    IN  /\ resp' = [op |-> "raise_in_request", who |-> exc.kind,
                    status |-> response.status, detail |-> exc.message,
                    via |-> IF "text" \in DOMAIN response.body THEN "text" ELSE "json",
                    body |-> response.body]
        /\ UNCHANGED <<users, two_factor, redis, outbox, roles, permissions,
                       role_permissions, user_roles, now, enabled_with,
                       used_backup, last_issued, otherSubsystems>>

MaxErrorsTime == 300

InitErrors == InitReset

NextErrors ==
    \/ \E path \in RequestPaths, exc \in RaisedExceptions : raise_in_request(path, exc)
    \/ Tick(MaxErrorsTime)

SpecErrors == InitErrors /\ [][NextErrors]_vars

\* the status that belongs to an exception
StatusOfException(exc) ==
    CASE exc.kind \in { "AppException", "HTTPException" } -> exc.status_code
      [] exc.kind \in { "ValidationError", "RequestValidationError" } -> HTTP_422
      [] exc.kind = "IntegrityError" -> HTTP_409
      [] OTHER -> HTTP_500

\* C12: every exception raised in a request is answered with a JSON body of
\* status false, path, timestamp, error_code, message and data under the
\* status that belongs to the exception, and no handler fails.
C12_ErrorsMappedToJson ==
    [][\A path \in RequestPaths, exc \in RaisedExceptions :
          (resp'.op = "raise_in_request" /\ raise_in_request(path, exc)) =>
              /\ ~ EXCEPTION_HANDLERS_MAPPING(path, exc).raised
              /\ resp'.status = StatusOfException(exc)
              /\ DOMAIN resp'.body =
                    { "status", "path", "timestamp", "error_code", "message", "data" }
              /\ resp'.body.status = FALSE
              /\ resp'.body.path = path]_vars

(***************************************************************************)
(* Overlapping requests: configs/db.py dependencies                        *)
(***************************************************************************)
MaxSessions == 4          \* sessions opened in one run

\* the tables as the services of the other sections leave them at start-up
CoreIdle ==
    /\ users = SeedUsers
    /\ two_factor = {}
    /\ redis = {}
    /\ outbox = << >>
    /\ roles = {}
    /\ permissions = {}
    /\ role_permissions = {}
    /\ user_roles = {}
    /\ now = 0
    /\ resp = NoResp
    /\ enabled_with = [u \in UserIds |-> FALSE]
    /\ used_backup = [u \in UserIds |-> {}]
    /\ last_issued = [e \in Emails |-> NoOtp]

OtherUnchangedRequests ==
    UNCHANGED <<users, two_factor, redis, outbox, roles, permissions,
                role_permissions, user_roles, now, enabled_with, used_backup,
                last_issued, paging, files, storage, push_tokens, fcm_calls>>

\* get_db_session: async with SessionLocal() as session -- a new session
\* object for every call
get_db_session == redis_global.sessions + 1

\* get_redis_pool / get_redis_client up to the yield: the module globals are
\* created on first use and handed out to every caller afterwards
get_redis_client ==
    [redis_global EXCEPT !.redis_pool = TRUE, !.redis_client = TRUE]

\* the dependencies of a request are resolved: it gets a session and the
\* Redis client, and its handler starts
request_begin(q) ==
    /\ inflight[q].pc = "idle"
    /\ redis_global.sessions < MaxSessions
    /\ redis_global' = [get_redis_client EXCEPT !.sessions = get_db_session]
    /\ inflight' = [inflight EXCEPT ![q] =
                        [pc |-> "handling", session |-> get_db_session,
                         closes_seen |-> redis_global.close_calls]]
    /\ resp' = [op |-> "request_begin", who |-> q, status |-> 0, detail |-> "",
                via |-> "none"]
    /\ OtherUnchangedRequests

\* the handler of an in-flight request awaits a command on the client it was
\* given; via tells whether close() has been called on that client since
request_use_redis(q) ==
    /\ inflight[q].pc = "handling"
    /\ resp' = [op |-> "request_use_redis", who |-> q, status |-> 0, detail |-> "",
                via |-> IF redis_global.close_calls > inflight[q].closes_seen
                        THEN "closed client" ELSE "open client"]
    /\ UNCHANGED <<inflight, redis_global>>
    /\ OtherUnchangedRequests

\* the request completes: the finally block of get_redis_client awaits
\* redis_client.close() on the module-global client, and the async with of
\* get_db_session closes the request's session
request_complete(q) ==
    /\ inflight[q].pc = "handling"
    /\ redis_global' = [redis_global EXCEPT !.close_calls = @ + 1]
    /\ inflight' = [inflight EXCEPT ![q] =
                        [pc |-> "idle", session |-> 0, closes_seen |-> 0]]
    /\ resp' = [op |-> "request_complete", who |-> q, status |-> 0, detail |-> "",
                via |-> "none"]
    /\ OtherUnchangedRequests

InitRequests ==
    /\ CoreIdle
    /\ OtherSubsystemsIdle

NextRequests ==
    \/ \E q \in RequestIds : request_begin(q)
    \/ \E q \in RequestIds : request_use_redis(q)
    \/ \E q \in RequestIds : request_complete(q)

SpecRequests == InitRequests /\ [][NextRequests]_vars

\* C13: requests in flight at the same time have different database
\* sessions, and no request completes by calling close() on the Redis client
\* that another request in flight is holding.
C13_RequestsIndependent ==
    /\ \A q1, q2 \in RequestIds :
          (q1 # q2 /\ inflight[q1].pc = "handling" /\ inflight[q2].pc = "handling")
              => inflight[q1].session # inflight[q2].session
    /\ \A q \in RequestIds :
          inflight[q].pc = "handling"
              => redis_global.close_calls = inflight[q].closes_seen

(***************************************************************************)
(* Cursor pagination: BaseRepository.list_with_cursor                      *)
(***************************************************************************)
MaxRows == 3              \* rows of the paged table
NumNames == 2             \* distinct values of the repeating column
MaxLimit == 2             \* largest page size requested

PagingRowIds == 1 .. MaxRows
NameValues == 1 .. NumNames

\* the columns the list endpoints order by: id is the UUID primary key,
\* first_name a string column whose values may repeat across rows.  Values
\* are numbered in their sort order.
OrderFields == { "id", "first_name" }

\* uuid.UUID and datetime values: json.dumps has no encoding for them
NotJsonSerializable == { "id", "created_datetime", "updated_datetime" }

PagingRows ==
    [id : PagingRowIds, first_name : NameValues, deleted_datetime : { NullDatetime, 0 }]

\* the data sets: the primary key is unique
DataSets ==
    { rows \in SUBSET PagingRows :
        \A r1, r2 \in rows : r1.id = r2.id => r1 = r2 }

FieldOf(row, field) == IF field = "id" THEN row.id ELSE row.first_name

\* params.order_by or "id"
OrderByOrId(order_by) == IF IsSet(order_by) THEN ValueOf(order_by) ELSE "id"

\* a cursor string that is not base64 of JSON
BadCursor == 0 - 1

\* CursorPagination.encode_cursor({"value": value}): json.dumps raises
\* TypeError for a value it cannot serialise; otherwise the cursor decodes
\* to the value again
encode_cursor(field, value) ==
    [raised |-> field \in NotJsonSerializable, cursor |-> << value >>]

\* CursorPagination.decode_cursor: ValueError for a malformed string
decode_cursor(cursor) ==
    [raised |-> ValueOf(cursor) = BadCursor, value |-> ValueOf(cursor)]

\* Python truthiness of a cursor value: 0 stands for the empty string
Truthy(value) == value # 0

\* the WHERE clause: not soft-deleted, and beyond the cursor value
CursorMatches(rows, params) ==
    LET field == OrderByOrId(params.order_by)
    IN  { r \in rows :
            /\ r.deleted_datetime = NullDatetime
            /\ (IsSet(params.cursor) /\ Truthy(ValueOf(params.cursor))) =>
                  IF params.direction = "forward"
                  THEN FieldOf(r, field) > ValueOf(params.cursor)
                  ELSE FieldOf(r, field) < ValueOf(params.cursor) }

\* ORDER BY field asc/desc LIMIT limit + 1: every sequence the database may
\* return; rows with equal values of the field come in any order
QueryResults(rows, params) ==
    LET field == OrderByOrId(params.order_by)
        matches == CursorMatches(rows, params)
        n == IF Cardinality(matches) > params.limit + 1
             THEN params.limit + 1 ELSE Cardinality(matches)
        InOrder(a, b) == IF params.direction = "forward"
                         THEN FieldOf(a, field) <= FieldOf(b, field)
                         ELSE FieldOf(a, field) >= FieldOf(b, field)
    IN  { s \in [1 .. n -> matches] :
            /\ \A i, j \in 1 .. n : i < j => (s[i] # s[j] /\ InOrder(s[i], s[j]))
            /\ \A r \in matches : (\A i \in 1 .. n : s[i] # r) =>
                                      \A i \in 1 .. n : InOrder(s[i], r) }

\* list_with_cursor from the fetched rows on: the tuple it returns, or the
\* exception it raises
list_with_cursor(params, fetched) ==
    LET field == OrderByOrId(params.order_by)
        has_extra == Len(fetched) > params.limit
        items == IF ~ has_extra THEN fetched
                 ELSE IF params.direction = "forward"
                 THEN SubSeq(fetched, 1, Len(fetched) - 1)
                 ELSE SubSeq(fetched, 2, Len(fetched))
        wants_next == items # << >> /\ params.direction = "forward" /\ has_extra
        wants_previous == items # << >> /\ IsSet(params.cursor)
        next == encode_cursor(field, FieldOf(items[Len(items)], field))
        previous == encode_cursor(field, FieldOf(items[1], field))
    IN  IF IsSet(params.cursor) /\ decode_cursor(params.cursor).raised
        THEN [raised |-> TRUE, status |-> HTTP_400, items |-> << >>,
              has_extra |-> FALSE, has_previous |-> FALSE,
              next_cursor |-> Unset, previous_cursor |-> Unset]
        ELSE IF (wants_next /\ next.raised) \/ (wants_previous /\ previous.raised)
        THEN [raised |-> TRUE, status |-> HTTP_500, items |-> << >>,
              has_extra |-> FALSE, has_previous |-> FALSE,
              next_cursor |-> Unset, previous_cursor |-> Unset]
        ELSE [raised |-> FALSE, status |-> HTTP_200, items |-> items,
              has_extra |-> has_extra, has_previous |-> IsSet(params.cursor),
              next_cursor |-> IF wants_next THEN next.cursor ELSE Unset,
              previous_cursor |-> IF wants_previous THEN previous.cursor ELSE Unset]

IdsOf(items) == [i \in 1 .. Len(items) |-> items[i].id]

OtherUnchangedPaging ==
    UNCHANGED <<users, two_factor, redis, outbox, roles, permissions,
                role_permissions, user_roles, now, enabled_with, used_backup,
                last_issued, inflight, redis_global, files, storage,
                push_tokens, fcm_calls>>

PagingResp(result) ==
    [op |-> "list_with_cursor", who |-> "none", status |-> result.status,
     detail |-> IF result.status = HTTP_400 THEN "Invalid cursor format" ELSE "",
     via |-> "none"]

\* one call of a list endpoint with parameters of the client's choosing,
\* applied to the data set as drawn (the function reads the table only)
list_items(cursor, limit, order_by, direction) ==
    LET params == [cursor |-> cursor, limit |-> limit, order_by |-> order_by,
                   direction |-> direction]
    IN  /\ paging.last = << >>
        /\ \E fetched \in QueryResults(paging.rows, params) :
           LET result == list_with_cursor(params, fetched)
           IN  /\ paging' = [paging EXCEPT !.last = << [params |-> params,
                                                         result |-> result] >>]
               /\ resp' = PagingResp(result)
               /\ OtherUnchangedPaging

\* the next call of a forward traversal: the first call has no cursor, each
\* later one passes the next_cursor of the page before
next_page ==
    LET params == [cursor |-> paging.cursor, limit |-> paging.limit,
                   order_by |-> paging.order_by, direction |-> "forward"]
    IN  /\ paging.state \in { "start", "more" }
        /\ \E fetched \in QueryResults(paging.rows, params) :
              LET result == list_with_cursor(params, fetched)
              IN  /\ paging' =
                        [paging EXCEPT
                            !.last = << [params |-> params, result |-> result] >>,
                            !.seen = @ \o IdsOf(result.items),
                            !.cursor = result.next_cursor,
                            !.state = IF result.raised THEN "raised"
                                      ELSE IF IsSet(result.next_cursor) THEN "more"
                                      ELSE "end"]
                  /\ resp' = PagingResp(result)
                  /\ OtherUnchangedPaging

InitPaging ==
    /\ CoreIdle
    /\ NoRequests
    /\ NoFiles
    /\ NoPush
    /\ \E rows \in DataSets, order_by \in Optional(OrderFields), limit \in 1 .. MaxLimit :
          paging = [rows |-> rows, order_by |-> order_by, limit |-> limit,
                    cursor |-> Unset, seen |-> << >>, state |-> "start",
                    last |-> << >>]

CursorInputs == Optional(NameValues \cup PagingRowIds \cup { BadCursor })

NextPaging ==
    \/ \E cursor \in CursorInputs, limit \in 1 .. MaxLimit,
          order_by \in Optional(OrderFields), direction \in { "forward", "backward" } :
          list_items(cursor, limit, order_by, direction)
    \/ next_page

SpecPaging == InitPaging /\ [][NextPaging]_vars

VisibleIds == { r.id : r \in { x \in paging.rows : x.deleted_datetime = NullDatetime } }

RowOfId(id) == CHOOSE r \in paging.rows : r.id = id

\* C14: a forward traversal never fails, its pages hold at most limit items,
\* no record is returned twice, the records come in ascending order of the
\* order_by field, and when next_cursor is None every visible record has
\* been returned.
C14_ForwardTraversalComplete ==
    LET seen == paging.seen
        field == OrderByOrId(paging.order_by)
    IN  /\ paging.state # "raised"
        /\ paging.state \in { "more", "end" } =>
              Len(paging.last[1].result.items) <= paging.limit
        /\ \A i, j \in 1 .. Len(seen) :
              i < j => /\ seen[i] # seen[j]
                       /\ FieldOf(RowOfId(seen[i]), field) <= FieldOf(RowOfId(seen[j]), field)
        /\ paging.state = "end" => Range(seen) = VisibleIds

\* the records of the result's page, and the visible records outside it
PageRows(result) == Range(result.items)

OutsidePage(result) ==
    { r \in paging.rows : r.deleted_datetime = NullDatetime } \ PageRows(result)

\* a record lies at or beyond row in the direction of travel
AtOrBeyond(r, row, params) ==
    IF params.direction = "forward"
    THEN FieldOf(r, OrderByOrId(params.order_by)) >= FieldOf(row, OrderByOrId(params.order_by))
    ELSE FieldOf(r, OrderByOrId(params.order_by)) <= FieldOf(row, OrderByOrId(params.order_by))

\* records exist beyond the page in the direction of travel
RecordsBeyond(params, result) ==
    /\ result.items # << >>
    /\ \E r \in OutsidePage(result) :
          AtOrBeyond(r, result.items[Len(result.items)], params)

\* records exist before the page; before an empty page lies every record
RecordsBefore(params, result) ==
    IF result.items = << >> THEN OutsidePage(result) # {}
    ELSE \E r \in OutsidePage(result) : AtOrBeyond(result.items[1], r, params)

\* C15: in the tuple list_with_cursor returns, the second component says
\* whether records exist beyond the page in the direction of travel and
\* next_cursor is set exactly then; the third says whether records exist
\* before the page and previous_cursor is set exactly then.
C15_TupleConsistent ==
    (paging.last # << >> /\ ~ paging.last[1].result.raised) =>
        LET params == paging.last[1].params
            result == paging.last[1].result
        IN  /\ result.has_extra <=> RecordsBeyond(params, result)
            /\ IsSet(result.next_cursor) <=> result.has_extra
            /\ result.has_previous <=> RecordsBefore(params, result)
            /\ IsSet(result.previous_cursor) <=> result.has_previous

(***************************************************************************)
(* File management: FileService                                            *)
(***************************************************************************)
FileIds == { "f1", "f2", "f3" }
FileIdInputs == FileIds \cup { "f0" }

\* unique_filename = uuid4 + extension: one fresh storage key per upload
StorageKeyOf(file_id) ==
    CASE file_id = "f1" -> "k1" [] file_id = "f2" -> "k2" [] OTHER -> "k3"

\* a query that looks a file up by id alone
get_file_any_owner(file_id, user_id) ==
    { f \in files : f.id = file_id }

\* FileService.get_file: select(File).where(File.id == file_id,
\* File.user_id == user_id), scalar_one_or_none; id is the primary key
get_file(file_id, user_id) ==
    { f \in files : f.id = file_id /\ f.user_id = user_id }

\* S3Storage.get_download_url: a presigned URL for the key, None on ClientError
PresignedUrl(storage_key, signed) ==
    IF signed THEN << [url_for |-> storage_key] >> ELSE Unset

FileResp(op, who, file_id, status, detail, data) ==
    [op |-> op, who |-> who, status |-> status, detail |-> detail,
     via |-> file_id, data |-> data]

OtherUnchangedFiles ==
    UNCHANGED <<users, two_factor, redis, outbox, roles, permissions,
                role_permissions, user_roles, now, enabled_with, used_backup,
                last_issued, inflight, redis_global, paging, push_tokens,
                fcm_calls>>

\* POST /files/upload: the object is stored, then the record is committed;
\* a failed upload raises before any record exists
upload_file(user_id, uploaded, signed) ==
    /\ \E file_id \in FileIds :
          /\ \A f \in files : f.id # file_id
          /\ StorageKeyOf(file_id) \notin storage
          /\ IF ~ uploaded
             THEN /\ resp' = FileResp("upload_file", user_id, file_id, HTTP_500,
                                      "Internal Server Error", Unset)
                  /\ UNCHANGED <<files, storage>>
             ELSE /\ storage' = storage \cup { StorageKeyOf(file_id) }
                  /\ files' = files \cup { [id |-> file_id, user_id |-> user_id,
                                            storage_key |-> StorageKeyOf(file_id)] }
                  /\ resp' = FileResp("upload_file", user_id, file_id, HTTP_201,
                                      "File uploaded successfully",
                                      PresignedUrl(StorageKeyOf(file_id), signed))
    /\ OtherUnchangedFiles

\* GET /files/{file_id}
get_file_details(file_id, user_id) ==
    LET found == get_file(file_id, user_id)
    IN  /\ IF found = {}
           THEN resp' = FileResp("get_file", user_id, file_id, HTTP_404,
                                 "File not found", Unset)
           ELSE resp' = FileResp("get_file", user_id, file_id, HTTP_200,
                                 "Retrieved file details",
                                 << CHOOSE f \in found : TRUE >>)
        /\ UNCHANGED <<files, storage>>
        /\ OtherUnchangedFiles

\* GET /files/{file_id}/download
get_download_url(file_id, user_id, signed) ==
    LET found == get_file(file_id, user_id)
        download_url == IF found = {} THEN Unset
                        ELSE PresignedUrl((CHOOSE f \in found : TRUE).storage_key, signed)
    IN  /\ IF ~ IsSet(download_url)
           THEN resp' = FileResp("get_download_url", user_id, file_id, HTTP_404,
                                 "File not found or download URL unavailable", Unset)
           ELSE resp' = FileResp("get_download_url", user_id, file_id, HTTP_200,
                                 "Retrieved download URL", download_url)
        /\ UNCHANGED <<files, storage>>
        /\ OtherUnchangedFiles

\* DELETE /files/{file_id}: the object is deleted from storage (a failure is
\* only logged), then the record is deleted and committed
delete_file(file_id, user_id, removed) ==
    LET found == get_file(file_id, user_id)
    IN  /\ IF found = {}
           THEN /\ resp' = FileResp("delete_file", user_id, file_id, HTTP_404,
                                    "File not found", Unset)
                /\ UNCHANGED <<files, storage>>
           ELSE /\ storage' = IF removed
                              THEN storage \ { f.storage_key : f \in found }
                              ELSE storage
                /\ files' = files \ found
                /\ resp' = FileResp("delete_file", user_id, file_id, HTTP_204, "", Unset)
        /\ OtherUnchangedFiles

InitFiles ==
    /\ CoreIdle
    /\ OtherSubsystemsIdle

NextFiles ==
    \/ \E u \in UserIds, uploaded \in BOOLEAN, signed \in BOOLEAN :
          upload_file(u, uploaded, signed)
    \/ \E f \in FileIdInputs, u \in UserIds : get_file_details(f, u)
    \/ \E f \in FileIdInputs, u \in UserIds, signed \in BOOLEAN :
          get_download_url(f, u, signed)
    \/ \E f \in FileIdInputs, u \in UserIds, removed \in BOOLEAN :
          delete_file(f, u, removed)

SpecFiles == InitFiles /\ [][NextFiles]_vars

OwnedBy(file_id, user_id) ==
    \E f \in files : f.id = file_id /\ f.user_id = user_id

\* C16: get_file, get_download_url and delete_file act on a file only for
\* its owner: for any other caller the answer is 404 with neither metadata
\* nor a URL, and the record and the stored object stay as they are; only
\* delete_file by the owner removes a record, and only that file's.
C16_FilesConfinedToOwner ==
    [][\A f \in FileIdInputs, u \in UserIds :
          /\ (resp'.op = "get_file" /\ resp'.who = u /\ get_file_details(f, u)
                 /\ ~ OwnedBy(f, u))
                => (resp'.status = HTTP_404 /\ ~ IsSet(resp'.data))
          /\ \A signed \in BOOLEAN :
                (resp'.op = "get_download_url" /\ resp'.who = u
                    /\ get_download_url(f, u, signed) /\ ~ OwnedBy(f, u))
                   => (resp'.status = HTTP_404 /\ ~ IsSet(resp'.data))
          /\ \A removed \in BOOLEAN :
                (resp'.op = "delete_file" /\ resp'.who = u /\ delete_file(f, u, removed))
                   => IF OwnedBy(f, u)
                      THEN files' = { x \in files : x.id # f }
                      ELSE /\ resp'.status = HTTP_404
                           /\ files' = files
                           /\ storage' = storage]_vars

\* another user's existing file was asked for deletion and is still there
C16_Witness ==
    /\ resp.op = "delete_file"
    /\ resp.status = HTTP_404
    /\ \E f \in files : f.id = resp.via /\ f.user_id # resp.who
                           /\ f.storage_key \in storage

(***************************************************************************)
(* Push notifications: PushNotificationService                             *)
(***************************************************************************)
MaxFcmCalls == 2          \* multicast messages handed to FCM in one run

PushTokenStrings == { "t1", "t2" }

\* data.user_ids: None, or a list of user ids (the empty list included)
UserIdLists == Optional(SUBSET UserIds)

\* Python truthiness of data.user_ids: None and [] are both false
UserIdsTruthy(user_ids) == IsSet(user_ids) /\ ValueOf(user_ids) # {}

\* the token query of send_push_notification
SelectPushTokens(user_ids) ==
    IF UserIdsTruthy(user_ids)
    THEN { t \in push_tokens : t.user_id \in ValueOf(user_ids) }
    ELSE push_tokens

\* FCMService.send_to_tokens: the multicast result; delivered are the tokens
\* FCM reports a success for (none when the call raises)
send_to_tokens(tokens, delivered) ==
    [success_count |-> Cardinality(tokens \cap delivered),
     failure_count |-> Cardinality(tokens \ delivered)]

OtherUnchangedPush ==
    UNCHANGED <<users, two_factor, redis, outbox, roles, permissions,
                role_permissions, user_roles, now, enabled_with, used_backup,
                last_issued, inflight, redis_global, paging, files, storage>>

PushResp(op, who, status, detail, data) ==
    [op |-> op, who |-> who, status |-> status, detail |-> detail,
     via |-> "none", data |-> data]

\* POST /push/register: a token string belongs to the user who registered it last
register_token(user_id, token) ==
    /\ push_tokens' = { t \in push_tokens : t.token # token }
                          \cup { [user_id |-> user_id, token |-> token] }
    /\ resp' = PushResp("register_token", user_id, HTTP_201,
                         "Push token registered successfully", TRUE)
    /\ UNCHANGED fcm_calls
    /\ OtherUnchangedPush

\* DELETE /push/unregister
remove_token(user_id, token) ==
    /\ push_tokens' = { t \in push_tokens : ~ (t.user_id = user_id /\ t.token = token) }
    /\ resp' = PushResp("remove_token", user_id, HTTP_204, "", TRUE)
    /\ UNCHANGED fcm_calls
    /\ OtherUnchangedPush

\* POST /push/send
send_push_notification(user_ids, delivered) ==
    LET tokens == SelectPushTokens(user_ids)
        token_strings == { t.token : t \in tokens }
        fcm_result == send_to_tokens(token_strings, delivered)
    IN  /\ Len(fcm_calls) < MaxFcmCalls
        /\ IF tokens = {}
           THEN /\ resp' = PushResp("send_push_notification", "none", HTTP_200,
                                    "Failed to send push notification", FALSE)
                /\ UNCHANGED fcm_calls
           ELSE /\ fcm_calls' = Append(fcm_calls, token_strings)
                /\ resp' = PushResp("send_push_notification", "none", HTTP_200,
                                    IF fcm_result.success_count > 0
                                    THEN "Push notification sent"
                                    ELSE "Failed to send push notification",
                                    fcm_result.success_count > 0)
        /\ UNCHANGED push_tokens
        /\ OtherUnchangedPush

InitPush ==
    /\ CoreIdle
    /\ OtherSubsystemsIdle

NextPush ==
    \/ \E u \in UserIds, t \in PushTokenStrings : register_token(u, t)
    \/ \E u \in UserIds, t \in PushTokenStrings : remove_token(u, t)
    \/ \E user_ids \in UserIdLists, delivered \in SUBSET PushTokenStrings :
          send_push_notification(user_ids, delivered)

SpecPush == InitPush /\ [][NextPush]_vars

\* the tokens the request addresses: everybody's for None, the listed users'
\* for a list
AddressedTokens(user_ids) ==
    IF ~ IsSet(user_ids) THEN { t.token : t \in push_tokens }
    ELSE { t.token : t \in { x \in push_tokens : x.user_id \in ValueOf(user_ids) } }

\* C17: send_push_notification hands FCM all tokens only for user_ids None
\* and the listed users' tokens for a list, hands it nothing and answers
\* False when there are none (so for the empty list), and answers True
\* exactly when FCM reports a successful delivery.
C17_PushAddressing ==
    [][\A user_ids \in UserIdLists, delivered \in SUBSET PushTokenStrings :
          (resp'.op = "send_push_notification"
              /\ send_push_notification(user_ids, delivered)) =>
              IF AddressedTokens(user_ids) = {}
              THEN fcm_calls' = fcm_calls /\ resp'.data = FALSE
              ELSE /\ fcm_calls' = Append(fcm_calls, AddressedTokens(user_ids))
                   /\ resp'.data = (AddressedTokens(user_ids) \cap delivered # {})]_vars

\* every link row points at rows that exist
LinksReferToRows ==
    /\ \A rp \in role_permissions :
          /\ \E r \in roles : r.id = rp.role_id
          /\ \E q \in permissions : q.id = rp.permission_id
    /\ \A ur \in user_roles : \E r \in roles : r.id = ur.role_id

\* C18: every role-permission link refers to an existing role and an existing
\* permission and every user-role link to an existing role, in every
\* reachable state; deleting a role that is not a system role, or a
\* permission, removes the row together with its links.
C18_ReferentialIntegrity ==
    /\ [] LinksReferToRows
    /\ [][/\ \A i \in RoleIds :
                (resp'.op = "delete_role" /\ resp'.who = i /\ delete_role(i)
                    /\ \E r \in roles : r.id = i /\ ~ r.is_system)
                   => /\ \A r \in roles' : r.id # i
                      /\ \A rp \in role_permissions' : rp.role_id # i
                      /\ \A ur \in user_roles' : ur.role_id # i
          /\ \A i \in PermissionIds :
                (resp'.op = "delete_permission" /\ resp'.who = i /\ delete_permission(i)
                    /\ \E q \in permissions : q.id = i)
                   => /\ \A q \in permissions' : q.id # i
                      /\ \A rp \in role_permissions' : rp.permission_id # i]_vars

\* the backup codes stored for a user, 0 for a user with no record
StoredBackupCodes(user_id) ==
    IF TwoFactorRows(user_id) = {} THEN 0
    ELSE Len(json_loads(TwoFactorOf(user_id).backup_codes))

\* C19: get_2fa_info reports is_enabled as stored and the number of stored
\* backup codes (False and 0 for a user with no record); that number is the
\* generated count right after setup_2fa, one less after each disable_2fa
\* accepted through a backup code, and unchanged by every other operation.
C19_InfoReportsStoredState ==
    [][\A u \in UserIds :
          /\ (resp'.op = "get_2fa_status" /\ resp'.who = u /\ get_2fa_status(u)) =>
                /\ resp'.status = HTTP_200
                /\ IsSet(resp'.data)
                /\ ValueOf(resp'.data).is_enabled =
                       (\E r \in TwoFactorRows(u) : r.is_enabled)
                /\ ValueOf(resp'.data).remaining_backup_codes = StoredBackupCodes(u)
          /\ StoredBackupCodes(u)' =
                IF resp'.op = "setup_2fa" /\ resp'.who = u THEN BackupCodeCount
                ELSE IF resp'.op = "disable_2fa" /\ resp'.who = u /\ resp'.via = "backup"
                THEN StoredBackupCodes(u) - 1
                ELSE StoredBackupCodes(u)]_vars

\* C20: RoleChecker admits the request exactly when the user holds a role
\* named in the required set, and answers 403 'Required role not found'
\* otherwise (so always for a user with no roles).
C20_RoleCheckerAdmitsIffHolds ==
    [][\A required \in RequiredRoleSets, u \in UserIds :
          (resp'.op = "RoleChecker" /\ resp'.who = u /\ RoleChecker(required, u)) =>
              IF \E r \in roles :
                    /\ r.name \in required
                    /\ \E ur \in user_roles : ur.user_id = u /\ ur.role_id = r.id
              THEN resp'.status = HTTP_200
              ELSE /\ resp'.status = HTTP_403
                   /\ resp'.detail = "Required role not found"]_vars

====
